---- MODULE Spec2Model ----
\* Declare visualizer: the constraint-to-edge mapper (constraintMap) and the
\* DeclareVisualizer component (graph assembly, layout, instance lifecycle).
\*
\* Strings of the program are sequences of one-character strings, so that
\* toLowerCase, replace and template concatenation are computed, not assumed.
EXTENDS Integers, Sequences, FiniteSets, TLC

VARIABLES mapIn, mapOut, asmIn, asmOut,
          model, mounted, engineStrict, alive, destroyed, cyRef, cleanup, cy, outcome, png

vars == <<mapIn, mapOut, asmIn, asmOut,
          model, mounted, engineStrict, alive, destroyed, cyRef, cleanup, cy, outcome, png>>

mapperVars == <<mapIn, mapOut>>
assemblerVars == <<asmIn, asmOut>>
sessionVars == <<model, mounted, engineStrict, alive, destroyed, cyRef, cleanup, cy, outcome, png>>

-----------------------------------------------------------------------------
\* Bounds of the model.

\* longest run of separator characters between the two words of a kind
MaxSep == 2
\* largest occurrence index handed to the mapper (two digits)
MaxIndex == 12
\* longest activities / unary / constraints sequence of a model
MaxActs == 2
MaxUnary == 2
MaxConstraints == 1
\* rendering-engine instances one session may create
MaxInstances == 3
\* layout coordinates range over 0..MaxCoord
MaxCoord == 1

-----------------------------------------------------------------------------
\* Characters and strings.

LowerAlpha == <<"a","b","c","d","e","f","g","h","i","j","k","l","m","n","o","p","q","r","s","t","u","v","w","x","y","z">>
UpperAlpha == <<"A","B","C","D","E","F","G","H","I","J","K","L","M","N","O","P","Q","R","S","T","U","V","W","X","Y","Z">>
Digits == <<"0","1","2","3","4","5","6","7","8","9">>

\* the lower-case letter of every upper-case letter
LowerTable ==
    [c \in { UpperAlpha[i] : i \in 1..26 } |->
        LowerAlpha[CHOOSE i \in 1..26 : UpperAlpha[i] = c]]

\* String.prototype.toLowerCase, character by character
LowerChar(c) == IF c \in DOMAIN LowerTable THEN LowerTable[c] ELSE c

toLowerCase(s) == [i \in 1..Len(s) |-> LowerChar(s[i])]

\* the characters the class [\s-] of the normalization regex matches
SeparatorClass == {" ", "\t", "\n", "-"}

\* mutant: the regex class matches the hyphen only
ReplaceHyphensOnly(s) ==
    [i \in 1..Len(s) |-> IF s[i] = "-" THEN "_" ELSE s[i]]

\* .replace(/[\s-]/g, '_'): every single matching character becomes one '_'
ReplaceSeparators(s) ==
    [i \in 1..Len(s) |-> IF s[i] \in SeparatorClass THEN "_" ELSE s[i]]

\* const normalized = constraint.toLowerCase().replace(/[\s-]/g, '_')
Normalize(constraint) == ReplaceSeparators(toLowerCase(constraint))

\* `${index}` for a non-negative integer
RECURSIVE NumToStr(_)
NumToStr(n) ==
    IF n < 10 THEN <<Digits[n + 1]>>
    ELSE NumToStr(n \div 10) \o <<Digits[(n % 10) + 1]>>

\* the value of a property that is not set
Undefined == "undefined"

-----------------------------------------------------------------------------
\* The rows of the mapping switch, as the strings the case labels spell.

K_succession == <<"s","u","c","c","e","s","s","i","o","n">>
K_precedence == <<"p","r","e","c","e","d","e","n","c","e">>
K_response == <<"r","e","s","p","o","n","s","e">>
K_neg_precedence == <<"n","e","g","_","p","r","e","c","e","d","e","n","c","e">>
K_neg_response == <<"n","e","g","_","r","e","s","p","o","n","s","e">>
K_not_coexistence == <<"n","o","t","_","c","o","e","x","i","s","t","e","n","c","e">>
K_resp_absence == <<"r","e","s","p","_","a","b","s","e","n","c","e">>
K_coexistence == <<"c","o","e","x","i","s","t","e","n","c","e">>
K_chain_succession == <<"c","h","a","i","n","_","s","u","c","c","e","s","s","i","o","n">>
K_chain_response == <<"c","h","a","i","n","_","r","e","s","p","o","n","s","e">>
K_chain_precedence == <<"c","h","a","i","n","_","p","r","e","c","e","d","e","n","c","e">>
K_resp_existence == <<"r","e","s","p","_","e","x","i","s","t","e","n","c","e">>
K_choice == <<"c","h","o","i","c","e">>

TableKinds ==
    { K_succession, K_precedence, K_response, K_neg_precedence, K_neg_response,
      K_not_coexistence, K_resp_absence, K_coexistence, K_chain_succession,
      K_chain_response, K_chain_precedence, K_resp_existence, K_choice }

\* pieces of the id template and the per-edge suffixes
Arrow == <<"-",">">>
Dash == <<"-">>
SfxNone == <<>>
SfxMain == <<"-","m","a","i","n">>
SfxSourceCircle == <<"-","s","o","u","r","c","e","c","i","r","c","l","e">>
SfxTargetTriangle == <<"-","t","a","r","g","e","t","t","r","i","a","n","g","l","e">>
SfxTargetCircle == <<"-","t","a","r","g","e","t","c","i","r","c","l","e">>
SfxTriangle == <<"-","t","r","i","a","n","g","l","e">>
SfxCircle == <<"-","c","i","r","c","l","e">>
Sfx1 == <<"-","1">>
Sfx2 == <<"-","2">>
Sfx3 == <<"-","3">>

\* const idPrefix = `${source}->${target}-${normalized}-${index}`
IdPrefix(source, target, normalized, index) ==
    source \o Arrow \o target \o Dash \o normalized \o Dash \o NumToStr(index)

\* one edge definition { data: { id, source, target }, classes }
EdgeDef(id, source, target, classes) ==
    [data |-> [id |-> id, source |-> source, target |-> target], classes |-> classes]

\* the default row's edge also carries label: normalized
LabelledEdgeDef(id, source, target, label, classes) ==
    [data |-> [id |-> id, source |-> source, target |-> target, label |-> label],
     classes |-> classes]

\* export function getConstraintEdges(constraint, source, target, index)
getConstraintEdges(constraint, source, target, index) ==
    LET normalized == Normalize(constraint)
        idPrefix == IdPrefix(source, target, normalized, index)
        E(sfx, classes) == EdgeDef(idPrefix \o sfx, source, target, classes)
    IN  CASE normalized = K_succession ->
               << E(SfxMain, "succession-main"),
                  E(SfxSourceCircle, "succession-source-circle"),
                  E(SfxTargetTriangle, "succession-target-triangle"),
                  E(SfxTargetCircle, "succession-target-circle") >>
          [] normalized = K_precedence ->
               << E(SfxTriangle, "precedence-arrow"),
                  E(SfxCircle, "precedence-circle-offset") >>
          [] normalized = K_response ->
               << E(SfxNone, "line-single source-circle-target-triangle") >>
          [] normalized = K_neg_precedence ->
               << E(SfxCircle, "line-negative compound-arrow-circle"),
                  E(SfxTriangle, "line-negative compound-arrow-triangle") >>
          [] normalized = K_neg_response ->
               << E(SfxNone, "line-negative source-circle-target-triangle") >>
          [] normalized = K_not_coexistence ->
               << E(SfxNone, "line-negative both-circle") >>
          [] normalized = K_resp_absence ->
               << E(SfxNone, "line-negative source-circle") >>
          [] normalized = K_coexistence ->
               << E(SfxNone, "line-single both-circle") >>
          [] normalized = K_chain_succession ->
               << E(Sfx1, "line-triple-1"),
                  E(Sfx2, "line-triple-2 source-circle compound-arrow-circle"),
                  E(Sfx2, "line-triple-2 compound-arrow-triangle"),
                  E(Sfx3, "line-triple-3") >>
          [] normalized = K_chain_response ->
               << E(Sfx1, "line-triple-1"),
                  E(Sfx2, "line-triple-2 source-circle-target-triangle"),
                  E(Sfx3, "line-triple-3") >>
          [] normalized = K_chain_precedence ->
               << E(Sfx1, "line-triple-1"),
                  E(Sfx2, "line-triple-2 compound-arrow-circle"),
                  E(Sfx2, "line-triple-2 compound-arrow-triangle"),
                  E(Sfx3, "line-triple-3") >>
          [] normalized = K_resp_existence ->
               << E(SfxNone, "line-single source-circle") >>
          [] normalized = K_choice ->
               << E(SfxNone, "line-choice") >>
          [] OTHER ->
               << LabelledEdgeDef(idPrefix, source, target, normalized, "line-single") >>

\* edge.data(name): the value of a data field, undefined when it is not set
EdgeData(edge, name) ==
    IF name \in DOMAIN edge.data THEN edge.data[name] ELSE Undefined

\* edgeLength: function (edge) { ... constraint === "succession" ? 500 : 250 }
edgeLength(edge) ==
    LET constraint == EdgeData(edge, "constraint")
    IN  IF constraint = "succession" THEN 500 ELSE 250

-----------------------------------------------------------------------------
\* Kind strings handed to the mapper: the table's kinds and one unknown kind,
\* written in several letter cases and with several separator runs.

W_neg == <<"n","e","g">>
W_not == <<"n","o","t">>
W_resp == <<"r","e","s","p">>
W_chain == <<"c","h","a","i","n">>
W_absence == <<"a","b","s","e","n","c","e">>
W_existence == <<"e","x","i","s","t","e","n","c","e">>
W_xyz == <<"x","y","z">>
W_abc == <<"a","b","c">>

KindWords ==
    { <<K_succession>>, <<K_precedence>>, <<K_response>>, <<K_coexistence>>,
      <<K_choice>>, <<W_xyz>>,
      <<W_neg, K_precedence>>, <<W_neg, K_response>>, <<W_not, K_coexistence>>,
      <<W_resp, W_absence>>, <<W_chain, K_succession>>, <<W_chain, K_response>>,
      <<W_chain, K_precedence>>, <<W_resp, W_existence>>, <<W_xyz, W_abc>> }

UpperChar(c) ==
    IF \E i \in 1..26 : LowerAlpha[i] = c
    THEN UpperAlpha[CHOOSE i \in 1..26 : LowerAlpha[i] = c]
    ELSE c

CaseStyles == {"lower", "upper", "capital"}

ApplyCase(style, w) ==
    [i \in 1..Len(w) |->
        IF style = "upper" \/ (style = "capital" /\ i = 1) THEN UpperChar(w[i]) ELSE w[i]]

\* the characters that may stand between two words of a kind
JoinChars == {" ", "-", "_"}

SepRuns == UNION { [1..n -> JoinChars] : n \in 1..MaxSep }

\* every spelling of a kind given by its words
VariantsOf(words) ==
    IF Len(words) = 1
    THEN { ApplyCase(st, words[1]) : st \in CaseStyles }
    ELSE { ApplyCase(st, words[1]) \o run \o ApplyCase(st, words[2]) :
             st \in CaseStyles, run \in SepRuns }

ActA == <<"A">>
ActB == <<"B">>

\* (source, target) pairs handed to the mapper
EndPoints == { <<ActA, ActB>> }

\* the second kind string of a run: a lower-case spelling of the same words,
\* or a kind of the table as the case labels spell it
LowerVariantsOf(words) ==
    IF Len(words) = 1 THEN { words[1] }
    ELSE { words[1] \o run \o words[2] : run \in SepRuns }


-----------------------------------------------------------------------------
\* The mapper on its own: two calls with the same source, target and index,
\* and the length the layout's edgeLength callback returns for each edge.

NoMapOut ==
    [done |-> FALSE, normalized |-> <<>>, edges |-> <<>>, lengths |-> <<>>,
     otherNormalized |-> <<>>, otherEdges |-> <<>>, otherLengths |-> <<>>]

EdgeLengths(edges) == [i \in 1..Len(edges) |-> edgeLength(edges[i])]

MapAndMeasure ==
    /\ ~mapOut.done
    /\ LET edges == getConstraintEdges(mapIn.constraint, mapIn.source, mapIn.target, mapIn.index)
           otherEdges == getConstraintEdges(mapIn.other, mapIn.source, mapIn.target, mapIn.index)
       IN  mapOut' = [done |-> TRUE,
                      normalized |-> Normalize(mapIn.constraint),
                      edges |-> edges,
                      lengths |-> EdgeLengths(edges),
                      otherNormalized |-> Normalize(mapIn.other),
                      otherEdges |-> otherEdges,
                      otherLengths |-> EdgeLengths(otherEdges)]
    /\ UNCHANGED <<mapIn, assemblerVars, sessionVars>>

-----------------------------------------------------------------------------
\* Declare models (the declareModel prop).  present = FALSE is a null or
\* undefined prop; activitiesIsArray = FALSE is a model whose activities field
\* is missing or is not an array; hasUnary is ("unary" in declareModel).

Model(acts, unary, cons) ==
    [present |-> TRUE, activitiesIsArray |-> TRUE, activities |-> acts,
     hasUnary |-> TRUE, unary |-> unary, constraints |-> cons]

NullModel ==
    [present |-> FALSE, activitiesIsArray |-> FALSE, activities |-> <<>>,
     hasUnary |-> FALSE, unary |-> <<>>, constraints |-> <<>>]

NoActivitiesModel ==
    [present |-> TRUE, activitiesIsArray |-> FALSE, activities |-> <<>>,
     hasUnary |-> TRUE, unary |-> <<>>, constraints |-> <<>>]

Unary(kind, act) == [constraint |-> kind, activity |-> act]
Binary(kind, s, t) == [constraint |-> kind, source |-> s, target |-> t]

InitPrefix == <<"i","n","i","t","-">>
EdgeInitPrefix == <<"e","d","g","e","-","i","n","i","t","-">>

\* const fixedInitPosition = { x: 0, y: 0 }
fixedInitPosition == [x |-> 0, y |-> 0]

\* mutant: the last "init" constraint decides the locked activity
initActivityLast(m) ==
    IF m.hasUnary /\ \E i \in 1..Len(m.unary) : m.unary[i].constraint = "init"
    THEN LET last == CHOOSE i \in 1..Len(m.unary) :
                        /\ m.unary[i].constraint = "init"
                        /\ \A j \in (i + 1)..Len(m.unary) : m.unary[j].constraint # "init"
         IN  { m.unary[last].activity }
    ELSE {}

\* declareModel.unary?.find(u => u.constraint === "init")?.activity, as the
\* set holding that activity, empty when the lookup yields undefined
initActivity(m) ==
    IF m.hasUnary /\ \E i \in 1..Len(m.unary) : m.unary[i].constraint = "init"
    THEN LET first == CHOOSE i \in 1..Len(m.unary) :
                         /\ m.unary[i].constraint = "init"
                         /\ \A j \in 1..(i - 1) : m.unary[j].constraint # "init"
         IN  { m.unary[first].activity }
    ELSE {}

\* const nodes = declareModel.activities.map(act => ...)
nodes(m) ==
    [i \in 1..Len(m.activities) |->
        LET act == m.activities[i]
        IN  IF act \in initActivity(m)
            THEN [data |-> [id |-> act, label |-> act],
                  position |-> fixedInitPosition, locked |-> TRUE]
            ELSE [data |-> [id |-> act, label |-> act]]]

IsInit(u) == u.constraint = "init"

\* the unary constraints the forEach acts on
InitConstraints(m) == IF m.hasUnary THEN SelectSeq(m.unary, IsInit) ELSE <<>>

\* mutant: the decorator node takes the activity's own id
initNodesUnprefixed(m) ==
    LET us == InitConstraints(m)
    IN  [i \in 1..Len(us) |->
            [data |-> [id |-> us[i].activity],
             position |-> fixedInitPosition, locked |-> TRUE, classes |-> "init-node"]]

\* initNodes.push({ data: { id: `init-${u.activity}` }, position, locked, classes })
initNodes(m) ==
    LET us == InitConstraints(m)
    IN  [i \in 1..Len(us) |->
            [data |-> [id |-> InitPrefix \o us[i].activity],
             position |-> fixedInitPosition, locked |-> TRUE, classes |-> "init-node"]]

\* initEdges.push({ data: { id: `edge-init-${u.activity}`, source, target, constraint } })
initEdges(m) ==
    LET us == InitConstraints(m)
    IN  [i \in 1..Len(us) |->
            [data |-> [id |-> EdgeInitPrefix \o us[i].activity,
                       source |-> InitPrefix \o us[i].activity,
                       target |-> us[i].activity,
                       constraint |-> "init"]]]

\* declareModel.constraints.flatMap((c, i) => getConstraintEdges(..., i))
RECURSIVE FlatMapEdges(_, _)
FlatMapEdges(cs, i) ==
    IF i > Len(cs) THEN <<>>
    ELSE getConstraintEdges(cs[i].constraint, cs[i].source, cs[i].target, i - 1)
            \o FlatMapEdges(cs, i + 1)

edges(m) == FlatMapEdges(m.constraints, 1)

-----------------------------------------------------------------------------
\* Models handed to the assembler on its own.

ActInitA == <<"i","n","i","t","-","A">>

AsmActivityIds == { ActA, ActB, ActInitA }
AsmUnaryKinds == { "init", "existence" }
KindChainSuccessionSpaced ==
    <<"C","h","a","i","n"," ","S","u","c","c","e","s","s","i","o","n">>
AsmBinaries == { Binary(KindChainSuccessionSpaced, ActA, ActB) }

SeqsUpTo(S, n) == UNION { [1..k -> S] : k \in 0..n }

AsmModels ==
    { Model(acts, unary, cons) :
        acts \in SeqsUpTo(AsmActivityIds, MaxActs),
        unary \in SeqsUpTo({ Unary(k, a) : k \in AsmUnaryKinds, a \in AsmActivityIds }, MaxUnary),
        cons \in SeqsUpTo(AsmBinaries, MaxConstraints) }
    \cup
    { [Model(acts, <<>>, cons) EXCEPT !.hasUnary = FALSE] :
        acts \in SeqsUpTo(AsmActivityIds, MaxActs),
        cons \in SeqsUpTo(AsmBinaries, MaxConstraints) }

NoAsmOut ==
    [done |-> FALSE, nodes |-> <<>>, initNodes |-> <<>>, edges |-> <<>>, initEdges |-> <<>>]

\* the element arrays the effect builds before handing them to the engine:
\* cy.add([...nodes, ...initNodes]) and cy.add([...edges, ...initEdges])
Assemble ==
    /\ ~asmOut.done
    /\ asmOut' = [done |-> TRUE,
                  nodes |-> nodes(asmIn),
                  initNodes |-> initNodes(asmIn),
                  edges |-> edges(asmIn),
                  initEdges |-> initEdges(asmIn)]
    /\ UNCHANGED <<asmIn, mapperVars, sessionVars>>

-----------------------------------------------------------------------------
\* The rendering engine, as far as the effect drives it.  An instance holds
\* its nodes (id, position, locked, classes) and its edges in insertion order.

Origin == [x |-> 0, y |-> 0]

NoGraph == [inst |-> 0, nodes |-> <<>>, edges |-> <<>>, layout |-> "idle"]

\* cytoscape({ container, elements: [], style }): a fresh, empty instance
NewGraph(inst) == [inst |-> inst, nodes |-> <<>>, edges |-> <<>>, layout |-> "idle"]

IsEdgeDef(def) == "source" \in DOMAIN def.data

\* the node an element definition creates; a node given no position starts at
\* the origin, and one not marked locked can be moved
NodeOf(def) ==
    [id |-> def.data.id,
     position |-> IF "position" \in DOMAIN def THEN def.position ELSE Origin,
     locked |-> IF "locked" \in DOMAIN def THEN def.locked ELSE FALSE,
     classes |-> IF "classes" \in DOMAIN def THEN def.classes ELSE ""]

HasNode(g, id) == \E i \in 1..Len(g.nodes) : g.nodes[i].id = id
HasEdge(g, id) == \E i \in 1..Len(g.edges) : g.edges[i].data.id = id
HasElement(g, id) == HasNode(g, id) \/ HasEdge(g, id)

\* the engine refuses an element whose id is taken and an edge one of whose
\* ends is not in the graph
Refused(g, def) ==
    \/ HasElement(g, def.data.id)
    \/ IsEdgeDef(def) /\ (~HasElement(g, def.data.source) \/ ~HasElement(g, def.data.target))

\* cy.add(eles), element by element.  The engine reports a refused element
\* through its error routine, which raises in some releases of the engine and
\* logs and skips the element in others: strict tells which.
RECURSIVE AddEles(_, _, _, _)
AddEles(g, eles, i, strict) ==
    IF i > Len(eles) THEN [raised |-> FALSE, g |-> g]
    ELSE IF Refused(g, eles[i])
         THEN IF strict THEN [raised |-> TRUE, g |-> g]
              ELSE AddEles(g, eles, i + 1, strict)
         ELSE IF IsEdgeDef(eles[i])
              THEN AddEles([g EXCEPT !.edges = Append(@, eles[i])], eles, i + 1, strict)
              ELSE AddEles([g EXCEPT !.nodes = Append(@, NodeOf(eles[i]))], eles, i + 1, strict)

\* n.id().replace("init-", ""): the first occurrence of the pattern is removed
ReplaceFirst(s, pat) ==
    LET hits == { k \in 1..(Len(s) - Len(pat) + 1) : SubSeq(s, k, k + Len(pat) - 1) = pat }
    IN  IF hits = {} THEN s
        ELSE LET k == CHOOSE h \in hits : \A h2 \in hits : h <= h2
             IN  SubSeq(s, 1, k - 1) \o SubSeq(s, k + Len(pat), Len(s))

\* n.position({ x, y }): a locked node keeps its position
SetPosition(g, i, pos) ==
    IF g.nodes[i].locked THEN g
    ELSE [g EXCEPT !.nodes[i].position = pos]

\* cy.nodes(".init-node").forEach(n => { target = cy.getElementById(...);
\*   pos = target.position(); n.position({ x: pos.x - 0, y: pos.y - 0 }) })
\* getElementById of an id no node carries yields no position, and reading
\* pos.x then raises.
RECURSIVE Repin(_, _)
Repin(g, i) ==
    IF i > Len(g.nodes) THEN [raised |-> FALSE, g |-> g]
    ELSE IF g.nodes[i].classes # "init-node" THEN Repin(g, i + 1)
    ELSE LET targetId == ReplaceFirst(g.nodes[i].id, InitPrefix)
         IN  IF ~HasNode(g, targetId) THEN [raised |-> TRUE, g |-> g]
             ELSE LET j == CHOOSE k \in 1..Len(g.nodes) : g.nodes[k].id = targetId
                      pos == g.nodes[j].position
                  IN  Repin(SetPosition(g, i, [x |-> pos.x - 0, y |-> pos.y - 0]), i + 1)

\* mutant: the guard does not look at activities
GuardPresenceOnly(m) == m.present

\* if (!containerRef.current || !declareModel || !Array.isArray(declareModel.activities)) return;
\* the container div is rendered with the component, so the ref is set
\* whenever the effect runs
GuardPasses(m) == m.present /\ m.activitiesIsArray

\* the body of the effect after the guard, on the fresh instance inst:
\* assemble, add nodes, add edges, start the layout, re-pin the init nodes.
\* raised = TRUE when an exception leaves the effect before its return.
BuildGraph(m, inst, strict) ==
    LET g0 == NewGraph(inst)
    IN  IF ~m.present \/ ~m.activitiesIsArray THEN [raised |-> TRUE, g |-> g0]
        ELSE LET r1 == AddEles(g0, nodes(m) \o initNodes(m), 1, strict)
             IN  IF r1.raised THEN r1
                 ELSE LET r2 == AddEles(r1.g, edges(m) \o initEdges(m), 1, strict)
                      IN  IF r2.raised THEN r2
                          ELSE Repin([r2.g EXCEPT !.layout = "running"], 1)

-----------------------------------------------------------------------------
\* One DeclareVisualizer component: the declareModel prop, the two refs, the
\* cleanup the last effect run returned, and the engine instances it created.
\*   mounted   "no" before the first render, "yes" while mounted, "gone" after
\*   engineStrict  whether the engine's error routine raises (fixed per run)
\*   alive     instances created and not destroyed;  destroyed  the others
\*   cyRef     cyRef.current: 0 for null, else an instance
\*   cleanup   0 when no cleanup is registered, else the instance the
\*             registered closure () => cy.destroy() will destroy
\*   cy        the graph of the instance the last build created, while it lives
\*   outcome   how the last effect run ended
\*   png       whether the PNG handler called the engine, and whether the
\*             instance it called was already destroyed

M_plain == Model(<<ActA, ActB>>, <<>>, <<Binary(K_response, ActA, ActB)>>)
M_init == Model(<<ActA, ActB>>, <<Unary("init", ActA)>>, <<Binary(K_succession, ActA, ActB)>>)
M_twoInit == Model(<<ActA, ActB>>, <<Unary("init", ActA), Unary("init", ActB)>>, <<>>)
M_danglingUnary == Model(<<ActA>>, <<Unary("init", ActB)>>, <<>>)
M_danglingBinary == Model(<<ActA>>, <<>>, <<Binary(K_response, ActA, ActB)>>)
M_chain == Model(<<ActA, ActB>>, <<>>, <<Binary(K_chain_succession, ActA, ActB)>>)

SessionModels ==
    { NullModel, NoActivitiesModel, M_plain, M_init, M_twoInit,
      M_danglingUnary, M_danglingBinary, M_chain }

Positions == [x : 0..MaxCoord, y : 0..MaxCoord]

NoPng == [called |-> FALSE, onDestroyed |-> FALSE]

Created == alive \cup destroyed

\* React runs the cleanup the previous effect run returned, if it returned one
AliveAfterCleanup == IF cleanup # 0 THEN alive \ {cleanup} ELSE alive
DestroyedAfterCleanup == IF cleanup # 0 THEN destroyed \cup {cleanup} ELSE destroyed
GraphAfterCleanup == IF cleanup # 0 /\ cy.inst = cleanup THEN NoGraph ELSE cy

\* useEffect(() => { ... }, [declareModel]): one run of the effect for the
\* prop value m, after the previous cleanup.  An effect that returns early or
\* raises registers no cleanup.
RunEffect(m) ==
    IF ~GuardPasses(m)
    THEN /\ outcome' = "skipped"
         /\ alive' = AliveAfterCleanup
         /\ destroyed' = DestroyedAfterCleanup
         /\ cy' = GraphAfterCleanup
         /\ cleanup' = 0
         /\ UNCHANGED cyRef
    ELSE LET inst == Cardinality(Created) + 1
             r == BuildGraph(m, inst, engineStrict)
         IN  /\ alive' = AliveAfterCleanup \cup {inst}
             /\ destroyed' = DestroyedAfterCleanup
             /\ cyRef' = inst
             /\ cy' = r.g
             /\ cleanup' = IF r.raised THEN 0 ELSE inst
             /\ outcome' = IF r.raised THEN "raised" ELSE "rendered"

\* first render of the component with prop m, and its effect
Mount(m) ==
    /\ mounted = "no"
    /\ mounted' = "yes"
    /\ model' = m
    /\ RunEffect(m)
    /\ UNCHANGED <<engineStrict, png, mapperVars, assemblerVars>>

\* the host passes another model: cleanup of the previous run, then the effect
ModelChange(m) ==
    /\ mounted = "yes"
    /\ m # model
    /\ GuardPasses(m) => Cardinality(Created) < MaxInstances
    /\ model' = m
    /\ RunEffect(m)
    /\ UNCHANGED <<mounted, engineStrict, png, mapperVars, assemblerVars>>

\* the component is removed: the registered cleanup runs
Unmount ==
    /\ mounted = "yes"
    /\ mounted' = "gone"
    /\ alive' = AliveAfterCleanup
    /\ destroyed' = DestroyedAfterCleanup
    /\ cy' = GraphAfterCleanup
    /\ cleanup' = 0
    /\ UNCHANGED <<model, engineStrict, cyRef, outcome, png, mapperVars, assemblerVars>>

\* Download PNG onClick: if (cyRef.current) { cyRef.current.png({ full: true }) ... }
DownloadPng ==
    /\ mounted = "yes"
    /\ png' = IF cyRef # 0
              THEN [called |-> TRUE, onDestroyed |-> png.onDestroyed \/ cyRef \in destroyed]
              ELSE png
    /\ UNCHANGED <<model, mounted, engineStrict, alive, destroyed, cyRef, cleanup, cy, outcome,
                   mapperVars, assemblerVars>>

\* the layout started by cy.layout({ name: 'cola', animate: true, ... }).run()
\* comes to rest: it has moved the nodes that are not locked, anywhere
LayoutStop ==
    /\ cy.layout = "running"
    /\ cy.inst \in alive
    /\ \E f \in [1..Len(cy.nodes) -> Positions] :
          /\ \A i \in 1..Len(cy.nodes) : cy.nodes[i].locked => f[i] = cy.nodes[i].position
          /\ cy' = [cy EXCEPT !.layout = "done",
                              !.nodes = [i \in 1..Len(cy.nodes) |->
                                            [cy.nodes[i] EXCEPT !.position = f[i]]]]
    /\ UNCHANGED <<model, mounted, engineStrict, alive, destroyed, cyRef, cleanup, outcome, png,
                   mapperVars, assemblerVars>>

-----------------------------------------------------------------------------
\* Specifications.

MapperIdle == mapIn = [constraint |-> <<>>, other |-> <<>>, source |-> <<>>,
                       target |-> <<>>, index |-> 0] /\ mapOut = NoMapOut
AssemblerIdle == asmIn = NullModel /\ asmOut = NoAsmOut
SessionIdle ==
    /\ model = NullModel /\ mounted = "no" /\ engineStrict = FALSE
    /\ alive = {} /\ destroyed = {} /\ cyRef = 0 /\ cleanup = 0
    /\ cy = NoGraph /\ outcome = "none" /\ png = NoPng

\* the session: a component not yet rendered, no instance, both refs null
Init ==
    /\ model = NullModel /\ mounted = "no" /\ engineStrict \in BOOLEAN
    /\ alive = {} /\ destroyed = {} /\ cyRef = 0 /\ cleanup = 0
    /\ cy = NoGraph /\ outcome = "none" /\ png = NoPng
    /\ MapperIdle /\ AssemblerIdle

Next ==
    \/ \E m \in SessionModels : Mount(m)
    \/ \E m \in SessionModels : ModelChange(m)
    \/ Unmount
    \/ DownloadPng
    \/ LayoutStop

Spec == Init /\ [][Next]_vars

\* the mapper on its own
MapperInit ==
    /\ \E words \in KindWords :
          \E c \in VariantsOf(words), o \in LowerVariantsOf(words) \cup TableKinds,
             ends \in EndPoints, index \in {0, MaxIndex} :
             mapIn = [constraint |-> c, other |-> o, source |-> ends[1],
                      target |-> ends[2], index |-> index]
    /\ mapOut = NoMapOut
    /\ AssemblerIdle /\ SessionIdle

MapperNext == MapAndMeasure

SpecMapper == MapperInit /\ [][MapperNext]_vars

\* the assembler on its own
AssemblerInit ==
    /\ asmIn \in AsmModels
    /\ asmOut = NoAsmOut
    /\ MapperIdle /\ SessionIdle

AssemblerNext == Assemble

SpecAssembler == AssemblerInit /\ [][AssemblerNext]_vars

-----------------------------------------------------------------------------
\* Properties of the mapper (checked under SpecMapper).

Distinct(seq) == \A i, j \in 1..Len(seq) : i # j => seq[i] # seq[j]
IdsOf(eles) == [i \in 1..Len(eles) |-> eles[i].data.id]
ClassesOf(eles) == [i \in 1..Len(eles) |-> eles[i].classes]
UpperLetters == { UpperAlpha[i] : i \in 1..26 }

\* C1: for every kind of the mapping table the mapper returns a non-empty
\* sequence of edges whose ids are pairwise distinct.
C1_TableIdsDistinct ==
    (mapOut.done /\ mapOut.normalized \in TableKinds)
        => (Len(mapOut.edges) >= 1 /\ Distinct(IdsOf(mapOut.edges)))

\* C5: every edge made from a "succession" constraint is given a strictly
\* larger layout length than every edge made from a constraint of another kind.
C5_SuccessionLonger ==
    (mapOut.done /\ mapOut.normalized = K_succession /\ mapOut.otherNormalized # K_succession)
        => \A i \in 1..Len(mapOut.lengths), j \in 1..Len(mapOut.otherLengths) :
              mapOut.lengths[i] > mapOut.otherLengths[j]

\* lower-case, every maximal run of whitespace/hyphen characters made one '_'
RECURSIVE CollapseRuns(_)
CollapseRuns(s) ==
    IF s = <<>> THEN <<>>
    ELSE IF Head(s) \in SeparatorClass
         THEN IF Len(s) > 1 /\ s[2] \in SeparatorClass
              THEN CollapseRuns(Tail(s))
              ELSE <<"_">> \o CollapseRuns(Tail(s))
         ELSE <<Head(s)>> \o CollapseRuns(Tail(s))

\* C8 as stated: normalization collapses every maximal separator run to a
\* single '_', so two kinds that differ only in letter case or in the length
\* or mix of their separator runs normalize alike and select the same row.
C8_RunsCollapse ==
    mapOut.done =>
        /\ mapOut.normalized = CollapseRuns(toLowerCase(mapIn.constraint))
        /\ (CollapseRuns(toLowerCase(mapIn.constraint)) = CollapseRuns(toLowerCase(mapIn.other)))
              => /\ mapOut.normalized = mapOut.otherNormalized
                 /\ ClassesOf(mapOut.edges) = ClassesOf(mapOut.otherEdges)

SameLetter(a, b) ==
    a = b \/ \E i \in 1..26 : {a, b} = {LowerAlpha[i], UpperAlpha[i]}

IsSeparatorOrUnderscore(c) == c \in SeparatorClass \cup {"_"}

\* two strings of one length that agree, position by position, up to letter
\* case and up to which of whitespace, hyphen and underscore stands there
SameShape(k1, k2) ==
    /\ Len(k1) = Len(k2)
    /\ \A i \in 1..Len(k1) :
          \/ IsSeparatorOrUnderscore(k1[i]) /\ IsSeparatorOrUnderscore(k2[i])
          \/ /\ ~IsSeparatorOrUnderscore(k1[i]) /\ ~IsSeparatorOrUnderscore(k2[i])
             /\ SameLetter(k1[i], k2[i])

\* C8 as amended: normalization keeps the length, lower-cases every letter
\* and turns every single whitespace or hyphen character into one '_'; two
\* kinds of the same shape normalize alike and select the same row.
C8_CharwiseNormalization ==
    mapOut.done =>
        /\ Len(mapOut.normalized) = Len(mapIn.constraint)
        /\ \A i \in 1..Len(mapIn.constraint) :
              /\ mapOut.normalized[i] \notin SeparatorClass \cup UpperLetters
              /\ IF mapIn.constraint[i] \in SeparatorClass
                 THEN mapOut.normalized[i] = "_"
                 ELSE SameLetter(mapOut.normalized[i], mapIn.constraint[i])
        /\ SameShape(mapIn.constraint, mapIn.other)
              => /\ mapOut.normalized = mapOut.otherNormalized
                 /\ ClassesOf(mapOut.edges) = ClassesOf(mapOut.otherEdges)

\* two different spellings of one shape (case and separator differ) that
\* select a row of the table
C8_Witness ==
    /\ mapOut.done
    /\ mapIn.constraint # mapIn.other
    /\ SameShape(mapIn.constraint, mapIn.other)
    /\ \E i \in 1..Len(mapIn.constraint) :
          mapIn.constraint[i] \in SeparatorClass /\ mapIn.other[i] # mapIn.constraint[i]
    /\ \E i \in 1..Len(mapIn.constraint) : mapIn.constraint[i] \in UpperLetters
    /\ mapOut.normalized = K_chain_response
    /\ mapOut.otherNormalized = K_chain_response

-----------------------------------------------------------------------------
\* Properties of the assembler (checked under SpecAssembler).

IsIn(x, seq) == \E i \in 1..Len(seq) : seq[i] = x

InitIndexes(m) == { i \in 1..Len(m.unary) : m.unary[i].constraint = "init" }

IsLocked(def) == "locked" \in DOMAIN def /\ def.locked

\* C9: every unary "init" constraint on a has a decorator node init-<a>
\* locked at the origin and a decorator edge edge-init-<a> from init-<a> to a;
\* other unary kinds have none; the only locked activity node is the activity
\* of the first "init" constraint; without binary constraints there are no
\* edges but the decorator edges.
C9_Assembled ==
    asmOut.done =>
        LET m == asmIn
            inits == InitIndexes(m)
        IN  /\ \A i \in inits :
                  LET a == m.unary[i].activity
                  IN  /\ \E k \in 1..Len(asmOut.initNodes) :
                            /\ asmOut.initNodes[k].data.id = InitPrefix \o a
                            /\ asmOut.initNodes[k].locked
                            /\ asmOut.initNodes[k].position = Origin
                            /\ asmOut.initNodes[k].classes = "init-node"
                      /\ \E k \in 1..Len(asmOut.initEdges) :
                            /\ asmOut.initEdges[k].data.id = EdgeInitPrefix \o a
                            /\ asmOut.initEdges[k].data.source = InitPrefix \o a
                            /\ asmOut.initEdges[k].data.target = a
            /\ Len(asmOut.initNodes) = Cardinality(inits)
            /\ Len(asmOut.initEdges) = Cardinality(inits)
            /\ Len(asmOut.nodes) = Len(m.activities)
            /\ \A j \in 1..Len(asmOut.nodes) :
                  /\ asmOut.nodes[j].data.id = m.activities[j]
                  /\ IsLocked(asmOut.nodes[j]) <=>
                        \E i \in inits :
                            /\ \A i2 \in inits : i <= i2
                            /\ m.unary[i].activity = m.activities[j]
                  /\ IsLocked(asmOut.nodes[j]) => asmOut.nodes[j].position = Origin
            /\ m.constraints = <<>> => asmOut.edges = <<>>

\* two "init" constraints on different activities of the model, with another
\* unary kind beside them
C9_Witness ==
    /\ asmOut.done
    /\ \E i, j \in InitIndexes(asmIn) :
          /\ i < j
          /\ asmIn.unary[i].activity # asmIn.unary[j].activity
          /\ IsIn(asmIn.unary[i].activity, asmIn.activities)
          /\ IsIn(asmIn.unary[j].activity, asmIn.activities)
    /\ \E k \in 1..Len(asmOut.nodes) : IsLocked(asmOut.nodes[k])
    /\ \E k \in 1..Len(asmOut.nodes) : ~IsLocked(asmOut.nodes[k])

NodeIds == IdsOf(asmOut.nodes) \o IdsOf(asmOut.initNodes)

\* C10: when the activities are pairwise distinct, the node ids of the
\* assembled elements (activity nodes and decorator nodes) are pairwise distinct.
C10_NodeIdsDistinct ==
    (asmOut.done /\ Distinct(asmIn.activities)) => Distinct(NodeIds)

\* C10 as amended: they are pairwise distinct when, besides, no two "init"
\* constraints name the same activity and no activity is spelled init-<a>
\* for an activity a that an "init" constraint names.
C10_NodeIdsDistinctAmended ==
    ( /\ asmOut.done
      /\ Distinct(asmIn.activities)
      /\ \A i, j \in InitIndexes(asmIn) :
            i # j => asmIn.unary[i].activity # asmIn.unary[j].activity
      /\ \A i \in InitIndexes(asmIn) :
            ~IsIn(InitPrefix \o asmIn.unary[i].activity, asmIn.activities) )
        => Distinct(NodeIds)

\* two decorators beside two activities, one of them spelled init-A
C10_Witness ==
    /\ asmOut.done
    /\ Distinct(asmIn.activities)
    /\ \A i, j \in InitIndexes(asmIn) :
          i # j => asmIn.unary[i].activity # asmIn.unary[j].activity
    /\ \A i \in InitIndexes(asmIn) :
          ~IsIn(InitPrefix \o asmIn.unary[i].activity, asmIn.activities)
    /\ Len(asmOut.initNodes) = 2
    /\ Len(asmOut.nodes) = 2
    /\ IsIn(ActInitA, asmIn.activities)

-----------------------------------------------------------------------------
\* Properties of the session (checked under Spec).

\* C2: at most one rendering-engine instance is alive at any time.
C2_AtMostOneAlive == Cardinality(alive) <= 1

\* C3: the PNG handler never calls into an instance that was destroyed.
C3_NoUseAfterDestroy == ~png.onDestroyed

\* C4: once the layout has come to rest, every decorator node init-<a> is at
\* the position of its anchor node <a>.
C4_DecoratorOnAnchor ==
    cy.layout = "done" =>
        \A i, j \in 1..Len(cy.nodes) :
            (cy.nodes[i].classes = "init-node" /\ cy.nodes[i].id = InitPrefix \o cy.nodes[j].id)
                => cy.nodes[i].position = cy.nodes[j].position

Malformed(m) == ~m.present \/ ~m.activitiesIsArray

\* a step in which the effect runs: the first render, or a changed model
EffectRuns ==
    \/ mounted = "no" /\ mounted' = "yes"
    \/ mounted = "yes" /\ mounted' = "yes" /\ model' # model

\* C6: an effect run on a malformed model does nothing: it creates no
\* instance, adds no node or edge, and raises no exception.
C6_MalformedSkipped ==
    [][ (EffectRuns /\ Malformed(model'))
          => /\ outcome' = "skipped"
             /\ alive' \cup destroyed' = alive \cup destroyed
             /\ alive' \subseteq alive
             /\ cyRef' = cyRef
             /\ Len(cy'.nodes) <= Len(cy.nodes)
             /\ Len(cy'.edges) <= Len(cy.edges) ]_vars

\* a malformed model has replaced a rendered one
C6_Witness ==
    /\ mounted = "yes"
    /\ Malformed(model)
    /\ outcome = "skipped"
    /\ destroyed # {}

DanglingUnary(m) == { i \in InitIndexes(m) : ~IsIn(m.unary[i].activity, m.activities) }
DanglingBinary(m) ==
    { i \in 1..Len(m.constraints) :
        ~IsIn(m.constraints[i].source, m.activities) \/ ~IsIn(m.constraints[i].target, m.activities) }

\* C7: a model with a constraint that names an activity missing from
\* activities is built to completion: the build is rendered, its teardown is
\* registered, and the decorator node of such an "init" constraint is in the
\* graph.  (Whether the engine keeps an edge with a missing end is the
\* engine's concern and is not asked here.)
C7_DanglingTolerated ==
    ( /\ mounted = "yes"
      /\ GuardPasses(model)
      /\ DanglingUnary(model) \cup DanglingBinary(model) # {} )
        => /\ outcome = "rendered"
           /\ cleanup # 0 /\ cleanup = cy.inst
           /\ \A i \in DanglingUnary(model) :
                 HasNode(cy, InitPrefix \o model.unary[i].activity)

====
